---- MODULE Spec2Model ----
(***************************************************************************)
(* Model of ralphbean/prioritize: prioritize-features.py (the rank-reorder *)
(* run against the tracker) and utils/jira.py (the bounded retry loops).   *)
(*                                                                         *)
(* The tracker is the pair (order, prio): order is the rank ordering of    *)
(* the tickets of the project and issue type, head = highest ranked (what  *)
(* "ORDER BY Rank ASC" lists first); prio gives each ticket its priority.  *)
(* Ticket keys are opaque labels, so the initial ordering is laid out as   *)
(* 1, 2, ..., n and every assignment of priorities and of parent links to  *)
(* the positions is enumerated: this covers every initial ordering up to   *)
(* renaming of the keys.                                                   *)
(***************************************************************************)
EXTENDS Integers, Sequences, FiniteSets, TLC

\* ------------------------------------------------------------------ bounds

\* Largest number of tickets of the project/type in the tracker.
MaxTickets == 5

\* Largest number of tickets in the runs checked for termination.
MaxLiveTickets == 3

\* Priorities the enumerated tickets carry (the tiers of the worked example
\* plus the lowest tier, without which no run gets past the anchor queries).
TicketTiers == {"Undefined", "Major", "Blocker"}

\* --------------------------------------------------------------- constants

PRIORITY == <<"Undefined", "Minor", "Normal", "Major", "Critical", "Blocker">>

\* Position of a priority name in PRIORITY: the tracker's "priority<=X" order.
TierIndex(p) == CHOOSE i \in 1 .. Len(PRIORITY) : PRIORITY[i] = p

Tiers == {PRIORITY[i] : i \in 1 .. Len(PRIORITY)}

VARIABLES
    order,       \* tracker: rank ordering, head = highest ranked
    prio,        \* tracker: ticket -> priority name
    children,    \* tracker: tickets whose "Parent Link" is the parent
    pc,          \* position of the process
    run,         \* "first" or "second" invocation of the tool
    DRY_RUN,     \* the global flag
    issues,      \* process_type: result of get_issues
    top_issues,  \* process_type: result of get_highest_ranked_issues, mutated
    idx,         \* number of issues the for loop has taken
    log,         \* the "moved above" lines printed, as records
    moves,       \* rank calls issued to the tracker, in order
    queries,     \* search queries issued to the tracker, in order
    exit_code,   \* status of the terminated process, -1 while it runs
    order0,      \* history: order when the current invocation started
    top0,        \* history: the map get_highest_ranked_issues returned
    first,       \* history: outcome of the first invocation
    raised,      \* history: JIRAErrors the tracker raised to this invocation
    rcall,       \* utils/jira.py: the function called and its inputs
    rattempts,   \* utils/jira.py: outcomes of the tracker calls made, in order
    rstate,      \* utils/jira.py: position in the function
    rresult,     \* utils/jira.py: value returned to the caller
    rcontext     \* utils/jira.py: issue.raw["Context"] of the issue

runVars == <<order, prio, children, pc, run, DRY_RUN, issues, top_issues, idx,
             log, moves, queries, exit_code, order0, top0, first, raised>>
retryVars == <<rcall, rattempts, rstate, rresult, rcontext>>
vars == <<order, prio, children, pc, run, DRY_RUN, issues, top_issues, idx,
          log, moves, queries, exit_code, order0, top0, first, raised,
          rcall, rattempts, rstate, rresult, rcontext>>

\* ----------------------------------------------------------------- helpers

Range(s) == {s[i] : i \in 1 .. Len(s)}

Reverse(s) == [i \in 1 .. Len(s) |-> s[Len(s) + 1 - i]]

\* Position of ticket t in the ordering s (0 when absent).
Pos(s, t) == IF t \in Range(s) THEN CHOOSE i \in 1 .. Len(s) : s[i] = t ELSE 0

\* t ranks strictly above u in the ordering s.
Above(s, t, u) == Pos(s, t) > 0 /\ Pos(s, u) > 0 /\ Pos(s, t) < Pos(s, u)

EmptyMap == [p \in {} |-> ""]

\* ----------------------------------------------------------------- tracker

\* SearchChildren with the query ordered by Rank ASC: highest ranked first.
SearchChildren_asc(ord, kids) == SelectSeq(ord, LAMBDA t : t \in kids)

\* search_issues for  "Parent Link"=parent ... ORDER BY Rank DESC.
SearchChildren(ord, kids) == SelectSeq(Reverse(ord), LAMBDA t : t \in kids)

\* SearchTop with the query ordered by Rank DESC: the lowest ranked hit.
SearchTop_desc(ord, pr, p) ==
    LET hits == SelectSeq(ord, LAMBDA t : TierIndex(pr[t]) <= TierIndex(p))
    IN  IF hits = <<>> THEN <<>> ELSE <<hits[Len(hits)]>>

\* search_issues for  priority<=p ... ORDER BY Rank ASC, maxResults=1.
SearchTop(ord, pr, p) ==
    LET hits == SelectSeq(ord, LAMBDA t : TierIndex(pr[t]) <= TierIndex(p))
    IN  IF hits = <<>> THEN <<>> ELSE <<hits[1]>>

\* Rank with the issue placed immediately after next_issue.
Rank_after(ord, issue, next_issue) ==
    IF issue = next_issue \/ issue \notin Range(ord) \/ next_issue \notin Range(ord)
    THEN ord
    ELSE LET rest == SelectSeq(ord, LAMBDA t : t # issue)
             i == Pos(rest, next_issue)
         IN  SubSeq(rest, 1, i) \o <<issue>> \o SubSeq(rest, i + 1, Len(rest))

\* JIRA.rank(issue, next_issue), when the tracker accepts the call: issue is
\* placed immediately before next_issue; ranking a ticket before itself
\* leaves the ordering as it is. A tracker that refuses the call raises
\* JIRAError instead (CheckRankRaises).
Rank(ord, issue, next_issue) ==
    IF issue = next_issue \/ issue \notin Range(ord) \/ next_issue \notin Range(ord)
    THEN ord
    ELSE LET rest == SelectSeq(ord, LAMBDA t : t # issue)
             i == Pos(rest, next_issue)
         IN  SubSeq(rest, 1, i - 1) \o <<issue>> \o SubSeq(rest, i, Len(rest))

\* ------------------------------------------------------ prioritize-features

\* get_highest_ranked_issues: the loop over the priorities, ended by
\* sys.exit(1) at the first query without a result. Gives the queries issued
\* and the dict built so far.
RECURSIVE HighestFrom(_, _, _, _, _)
HighestFrom(ord, pr, i, results, qs) ==
    IF i > Len(PRIORITY) THEN [ok |-> TRUE, results |-> results, queries |-> qs]
    ELSE LET found == SearchTop(ord, pr, PRIORITY[i])
             q == [kind |-> "top", priority |-> PRIORITY[i], hits |-> Len(found)]
         IN  IF found = <<>>
             THEN [ok |-> FALSE, results |-> results, queries |-> Append(qs, q)]
             ELSE HighestFrom(ord, pr, i + 1,
                              [p \in DOMAIN results \cup {PRIORITY[i]} |->
                                  IF p = PRIORITY[i] THEN found[1] ELSE results[p]],
                              Append(qs, q))

\* get_highest_ranked_issues going on to the next priority after a query
\* without a result, and exiting only once the loop is over.
RECURSIVE HighestFrom_continue(_, _, _, _, _, _)
HighestFrom_continue(ord, pr, i, results, qs, ok) ==
    IF i > Len(PRIORITY) THEN [ok |-> ok, results |-> results, queries |-> qs]
    ELSE LET found == SearchTop(ord, pr, PRIORITY[i])
             q == [kind |-> "top", priority |-> PRIORITY[i], hits |-> Len(found)]
         IN  IF found = <<>>
             THEN HighestFrom_continue(ord, pr, i + 1, results, Append(qs, q), FALSE)
             ELSE HighestFrom_continue(ord, pr, i + 1,
                              [p \in DOMAIN results \cup {PRIORITY[i]} |->
                                  IF p = PRIORITY[i] THEN found[1] ELSE results[p]],
                              Append(qs, q), ok)

get_highest_ranked_issues_continue(ord, pr) ==
    HighestFrom_continue(ord, pr, 1, EmptyMap, <<>>, TRUE)

get_highest_ranked_issues(ord, pr) == HighestFrom(ord, pr, 1, EmptyMap, <<>>)

\* get_issues: the children query and its result.
get_issues(ord, kids) ==
    LET results == SearchChildren(ord, kids)
    IN  [ok |-> results # <<>>, results |-> results,
         queries |-> <<[kind |-> "children", priority |-> "", hits |-> Len(results)]>>]

\* check_rank without line 151: the map is never updated.
check_rank_stale(issue, priority, top, dry) ==
    LET top_issue == top[priority]
    IN  [top_issues |-> top,
         update |-> [key |-> issue, priority |-> priority, anchor |-> top_issue],
         rank |-> IF ~dry THEN <<[issue |-> issue, next_issue |-> top_issue]>>
                  ELSE <<>>]

\* check_rank with line 151 moved under "if not DRY_RUN".
check_rank_dry_skips_map(issue, priority, top, dry) ==
    LET top_issue == top[priority]
    IN  [top_issues |-> IF ~dry THEN [top EXCEPT ![priority] = issue] ELSE top,
         update |-> [key |-> issue, priority |-> priority, anchor |-> top_issue],
         rank |-> IF ~dry THEN <<[issue |-> issue, next_issue |-> top_issue]>>
                  ELSE <<>>]

\* check_rank without the test of DRY_RUN at line 155.
check_rank_ignores_dry(issue, priority, top, dry) ==
    LET top_issue == top[priority]
    IN  [top_issues |-> [top EXCEPT ![priority] = issue],
         update |-> [key |-> issue, priority |-> priority, anchor |-> top_issue],
         rank |-> <<[issue |-> issue, next_issue |-> top_issue]>>]

\* check_rank with line 150 after line 151: the anchor is read from the
\* map already updated.
check_rank_update_first(issue, priority, top, dry) ==
    LET updated == [top EXCEPT ![priority] = issue]
        top_issue == updated[priority]
    IN  [top_issues |-> updated,
         update |-> [key |-> issue, priority |-> priority, anchor |-> top_issue],
         rank |-> IF ~dry THEN <<[issue |-> issue, next_issue |-> top_issue]>>
                  ELSE <<>>]

\* check_rank making the rank call twice.
check_rank_twice(issue, priority, top, dry) ==
    LET top_issue == top[priority]
    IN  [top_issues |-> [top EXCEPT ![priority] = issue],
         update |-> [key |-> issue, priority |-> priority, anchor |-> top_issue],
         rank |-> IF ~dry THEN <<[issue |-> issue, next_issue |-> top_issue],
                                 [issue |-> issue, next_issue |-> top_issue]>>
                  ELSE <<>>]

\* check_rank: the map after the call, the line appended to
\* context["updates"], and the rank calls made (none in a dry run).
check_rank(issue, priority, top, dry) ==
    LET top_issue == top[priority]
    IN  [top_issues |-> [top EXCEPT ![priority] = issue],
         update |-> [key |-> issue, priority |-> priority, anchor |-> top_issue],
         rank |-> IF ~dry THEN <<[issue |-> issue, next_issue |-> top_issue]>>
                  ELSE <<>>]

NoFirst == [done |-> FALSE, dry |-> FALSE, log |-> <<>>, moves |-> <<>>,
            order |-> <<>>]

InitRetryIdle ==
    /\ rcall = [fn |-> "none"]
    /\ rattempts = <<>>
    /\ rstate = "idle"
    /\ rresult = "none"
    /\ rcontext = "none"

\* The state before main, over every tracker of at most m tickets.
InitRunUpTo(m) ==
    /\ \E n \in 0 .. m :
         /\ order = [i \in 1 .. n |-> i]
         /\ prio \in [1 .. n -> TicketTiers]
         /\ children \in SUBSET (1 .. n)
    /\ pc = "start"
    /\ run = "first"
    /\ DRY_RUN = FALSE
    /\ issues = <<>>
    /\ top_issues = EmptyMap
    /\ idx = 0
    /\ log = <<>>
    /\ moves = <<>>
    /\ queries = <<>>
    /\ exit_code = -1
    /\ order0 = order
    /\ top0 = EmptyMap
    /\ first = NoFirst
    /\ raised = 0

InitRun == InitRunUpTo(MaxTickets)

Init == InitRun /\ InitRetryIdle

InitLive == InitRunUpTo(MaxLiveTickets) /\ InitRetryIdle

\* The state of a process that has just entered main with --dry-run = dry.
ProcessStart(dry) ==
    /\ DRY_RUN' = dry
    /\ pc' = "get_issues"
    /\ issues' = <<>>
    /\ top_issues' = EmptyMap
    /\ idx' = 0
    /\ log' = <<>>
    /\ moves' = <<>>
    /\ queries' = <<>>
    /\ exit_code' = -1
    /\ order0' = order
    /\ top0' = EmptyMap
    /\ raised' = 0
    /\ UNCHANGED <<order, prio, children>>

\* main, first invocation, with or without --dry-run.
Main ==
    /\ pc = "start"
    /\ \E dry \in BOOLEAN : ProcessStart(dry)
    /\ UNCHANGED <<run, first>>
    /\ UNCHANGED retryVars

\* main, invoked a second time with the same parent and project and without
\* --dry-run, after the first invocation completed and with the tracker
\* untouched in between.
Rerun ==
    /\ pc = "done"
    /\ run = "first"
    /\ run' = "second"
    /\ first' = [done |-> TRUE, dry |-> DRY_RUN, log |-> log, moves |-> moves,
                 order |-> order]
    /\ ProcessStart(FALSE)
    /\ UNCHANGED retryVars

\* process_type, line 101: get_issues; sys.exit(1) when it finds nothing.
GetIssues ==
    /\ pc = "get_issues"
    /\ LET r == get_issues(order, children)
       IN  /\ queries' = queries \o r.queries
           /\ IF r.ok
              THEN /\ pc' = "get_top"
                   /\ issues' = r.results
                   /\ UNCHANGED exit_code
              ELSE /\ pc' = "exited"
                   /\ exit_code' = 1
                   /\ UNCHANGED issues
    /\ UNCHANGED <<order, prio, children, run, DRY_RUN, top_issues, idx, log,
                   moves, order0, top0, first, raised>>
    /\ UNCHANGED retryVars

\* process_type, line 102: get_highest_ranked_issues; sys.exit(1) at the
\* first tier without a result.
GetHighestRankedIssues ==
    /\ pc = "get_top"
    /\ LET r == get_highest_ranked_issues(order, prio)
       IN  /\ queries' = queries \o r.queries
           /\ IF r.ok
              THEN /\ pc' = "loop"
                   /\ top_issues' = r.results
                   /\ top0' = r.results
                   /\ UNCHANGED exit_code
              ELSE /\ pc' = "exited"
                   /\ exit_code' = 1
                   /\ UNCHANGED <<top_issues, top0>>
    /\ UNCHANGED <<order, prio, children, run, DRY_RUN, issues, idx, log,
                   moves, order0, first, raised>>
    /\ UNCHANGED retryVars

\* The tracker after the rank calls of one check_rank (at most one).
RECURSIVE ApplyRanks(_, _)
ApplyRanks(ord, calls) ==
    IF calls = <<>> THEN ord
    ELSE ApplyRanks(Rank(ord, calls[1].issue, calls[1].next_issue), Tail(calls))

\* One iteration of the for loop of process_type: check_rank with the
\* tracker accepting the rank call, then add_comment printing the line.
CheckRank ==
    /\ pc = "loop"
    /\ idx < Len(issues)
    /\ LET issue == issues[idx + 1]
           r == check_rank(issue, prio[issue], top_issues, DRY_RUN)
       IN  /\ top_issues' = r.top_issues
           /\ moves' = moves \o r.rank
           /\ order' = ApplyRanks(order, r.rank)
           /\ log' = Append(log, r.update)
    /\ idx' = idx + 1
    /\ UNCHANGED <<prio, children, pc, run, DRY_RUN, issues, queries, exit_code,
                   order0, top0, first, raised>>
    /\ UNCHANGED retryVars

\* main, line 88: the loop is over, "Done." is printed, the process ends.
Done ==
    /\ pc = "loop"
    /\ idx = Len(issues)
    /\ pc' = "done"
    /\ exit_code' = 0
    /\ UNCHANGED <<order, prio, children, run, DRY_RUN, issues, top_issues, idx,
                   log, moves, queries, order0, top0, first, raised>>
    /\ UNCHANGED retryVars

\* check_rank, line 156, with the tracker raising JIRAError on the rank call:
\* the map is already updated (line 151), nothing in the script catches the
\* error, and the process dies with a traceback before add_comment prints.
CheckRankRaises ==
    /\ pc = "loop"
    /\ idx < Len(issues)
    /\ LET issue == issues[idx + 1]
           r == check_rank(issue, prio[issue], top_issues, DRY_RUN)
       IN  /\ r.rank # <<>>
           /\ top_issues' = r.top_issues
           /\ moves' = moves \o r.rank
    /\ raised' = raised + 1
    /\ pc' = "crashed"
    /\ exit_code' = 1
    /\ UNCHANGED <<order, prio, children, run, DRY_RUN, issues, idx, log, queries,
                   order0, top0, first>>
    /\ UNCHANGED retryVars

\* get_issues, line 140, with the tracker raising JIRAError on search_issues:
\* the error propagates out of main.
GetIssuesRaises ==
    /\ pc = "get_issues"
    /\ queries' = Append(queries, [kind |-> "children", priority |-> "", hits |-> -1])
    /\ raised' = raised + 1
    /\ pc' = "crashed"
    /\ exit_code' = 1
    /\ UNCHANGED <<order, prio, children, run, DRY_RUN, issues, top_issues, idx,
                   log, moves, order0, top0, first>>
    /\ UNCHANGED retryVars

\* -------------------------------------------------------------- utils/jira

\* range(0, 5) of the retry loops.
GetParentAttempts == 5
UpdateAttempts == 5

\* What one call to the tracker does: it answers, raises JIRAError, or
\* raises something else.
Outcomes == {"ok", "transient", "other"}

\* The calls enumerated: get_parent(issue) with the issue's "Parent Link"
\* field id and value, update(issue, data) and refresh(issue) with the
\* issue's Context.
RetryCalls ==
    [fn : {"get_parent"}, field_id : {"", "customfield_1"},
     parent_key : {"None", "PARENT-1", "PARENT-2"}, data : {"n/a"}, context : {"ctx"}]
    \cup [fn : {"update"}, field_id : {"n/a"}, parent_key : {"n/a"},
          data : {"{}", "fields"}, context : {"none", "ctx"}]
    \cup [fn : {"refresh"}, field_id : {"n/a"}, parent_key : {"n/a"},
          data : {"{}"}, context : {"none", "ctx"}]

\* get_parent_step with a bare "except": every failure is swallowed and
\* the loop goes on.
get_parent_step_catch_all(call, outcome, n) ==
    IF outcome = "ok" THEN [state |-> "returned", result |-> call.parent_key]
    ELSE IF n < GetParentAttempts
         THEN [state |-> "loop", result |-> "none"]
         ELSE [state |-> "returned", result |-> "None"]

\* get_parent, lines 78-83: what attempt number n does on the outcome.
get_parent_step(call, outcome, n) ==
    IF outcome = "ok" THEN [state |-> "returned", result |-> call.parent_key]
    ELSE IF outcome = "transient"
         THEN IF n < GetParentAttempts
              THEN [state |-> "loop", result |-> "none"]
              ELSE [state |-> "returned", result |-> "None"]
         ELSE [state |-> "raised", result |-> "error"]

\* update_step without the break at line 106: the loop goes on after a
\* successful issue.update.
update_step_no_break(call, outcome, n) ==
    IF outcome \in {"ok", "transient"}
    THEN IF n < UpdateAttempts
         THEN [state |-> "loop", result |-> IF outcome = "ok" THEN "applied" ELSE "none"]
         ELSE [state |-> "returned",
               result |-> IF outcome = "ok" THEN "applied" ELSE "not applied"]
    ELSE [state |-> "raised", result |-> "error"]

\* update, lines 103-108: what attempt number n does on the outcome; the
\* result tells whether the tracker applied the update.
update_step(call, outcome, n) ==
    IF outcome = "ok" THEN [state |-> "returned", result |-> "applied"]
    ELSE IF outcome = "transient"
         THEN IF n < UpdateAttempts
              THEN [state |-> "loop", result |-> "none"]
              ELSE [state |-> "returned", result |-> "not applied"]
         ELSE [state |-> "raised", result |-> "error"]

\* update, lines 100 and 110-112: issue.raw["Context"] when update returns.
\* A successful issue.update reloads the issue and drops the Context.
RestoreContext(issue_context, ctx) ==
    IF issue_context # "none" THEN issue_context ELSE ctx

InitRunIdle ==
    /\ order = <<>>
    /\ prio = EmptyMap
    /\ children = {}
    /\ pc = "idle"
    /\ run = "first"
    /\ DRY_RUN = FALSE
    /\ issues = <<>>
    /\ top_issues = EmptyMap
    /\ idx = 0
    /\ log = <<>>
    /\ moves = <<>>
    /\ queries = <<>>
    /\ exit_code = -1
    /\ order0 = <<>>
    /\ top0 = EmptyMap
    /\ first = NoFirst
    /\ raised = 0

InitRetry ==
    /\ InitRunIdle
    /\ rcall \in RetryCalls
    /\ rattempts = <<>>
    /\ rstate = "called"
    /\ rresult = "none"
    /\ rcontext = rcall.context

\* get_parent, lines 73-76 and 83: no field id or no parent key, None.
GetParentNone ==
    /\ rstate = "called"
    /\ rcall.fn = "get_parent"
    /\ rcall.field_id = "" \/ rcall.parent_key = "None"
    /\ rstate' = "returned"
    /\ rresult' = "None"
    /\ UNCHANGED <<rcall, rattempts, rcontext>>
    /\ UNCHANGED runVars

\* get_parent, lines 78-83: one pass of the retry loop.
GetParentAttempt ==
    /\ rstate \in {"called", "loop"}
    /\ rcall.fn = "get_parent"
    /\ rcall.field_id # "" /\ rcall.parent_key # "None"
    /\ \E outcome \in Outcomes :
         LET r == get_parent_step(rcall, outcome, Len(rattempts) + 1)
         IN  /\ rattempts' = Append(rattempts, outcome)
             /\ rstate' = r.state
             /\ rresult' = r.result
    /\ UNCHANGED <<rcall, rcontext>>
    /\ UNCHANGED runVars

\* update (and refresh, which is update(issue, {})), lines 100-112: one pass
\* of the retry loop and, when the loop is left normally, the restore.
UpdateAttempt ==
    /\ rstate \in {"called", "loop"}
    /\ rcall.fn \in {"update", "refresh"}
    /\ \E outcome \in Outcomes :
         LET r == update_step(rcall, outcome, Len(rattempts) + 1)
             reloaded == IF outcome = "ok" THEN "none" ELSE rcontext
         IN  /\ rattempts' = Append(rattempts, outcome)
             /\ rstate' = r.state
             /\ rresult' = r.result
             /\ rcontext' = IF r.state = "returned"
                            THEN RestoreContext(rcall.context, reloaded)
                            ELSE reloaded
    /\ UNCHANGED rcall
    /\ UNCHANGED runVars

NextRetry == GetParentNone \/ GetParentAttempt \/ UpdateAttempt

\* The retry loops of utils/jira.py, one call each.
SpecRetry == InitRetry /\ [][NextRetry]_vars

Next == Main \/ GetIssues \/ GetHighestRankedIssues \/ CheckRank \/ Done

\* One invocation of the tool against a tracker that answers every call.
Spec == Init /\ [][Next]_vars

\* One invocation that is not suspended for ever: the interpreter goes on
\* to the next statement as long as there is one (single thread, every call
\* to the tracker answered).
SpecLive == InitLive /\ [][Next]_vars /\ WF_vars(Next)

\* Two consecutive invocations.
NextRerun == Next \/ Rerun

SpecRerun == Init /\ [][NextRerun]_vars

\* main, first invocation, with --dry-run.
MainDry ==
    /\ pc = "start"
    /\ ProcessStart(TRUE)
    /\ UNCHANGED <<run, first>>
    /\ UNCHANGED retryVars

\* A dry run, then a real run from the tracker state the dry run started from.
NextDryReal ==
    MainDry \/ GetIssues \/ GetHighestRankedIssues \/ CheckRank \/ Done \/ Rerun

SpecDryReal == Init /\ [][NextDryReal]_vars

\* One invocation against a tracker that may raise JIRAError.
NextFlaky == Next \/ CheckRankRaises \/ GetIssuesRaises

SpecFlaky == Init /\ [][NextFlaky]_vars

\* ------------------------------------------------------------------ claims

\* A run without --dry-run got to "Done.".
Completed == pc = "done" /\ ~DRY_RUN

\* The processed children of tier T, in processing order.
TierChildren(T) == SelectSeq(issues, LAMBDA c : prio[c] = T)

\* The rank calls whose issue is of tier T, in the order issued.
TierMoves(T) == SelectSeq(moves, LAMBDA m : prio[m.issue] = T)

\* C1 as stated: after a completed non-dry run every processed child ranks
\* above the anchor its tier had at the start of the run, also when that
\* anchor is itself a child of the parent.
C1_ChildAboveInitialAnchor ==
    Completed =>
        \A i \in 1 .. Len(issues) :
            Above(order, issues[i], top0[prio[issues[i]]])

\* C1 amended: after a completed non-dry run every processed child of tier
\* T ranks above the anchor tier T had at the start of the run, when that
\* anchor is not itself a child of the parent.
C1_ChildAboveForeignAnchor ==
    Completed =>
        \A i \in 1 .. Len(issues) :
            top0[prio[issues[i]]] \notin children
                => Above(order, issues[i], top0[prio[issues[i]]])

\* C1 witness: a completed run moved a child from below its tier's foreign
\* anchor to above it, while another tier's anchor is a child.
C1_Witness ==
    /\ Completed
    /\ \E c \in children :
         /\ top0[prio[c]] \notin children
         /\ Above(order0, top0[prio[c]], c)
         /\ Above(order, c, top0[prio[c]])
    /\ \E T \in Tiers : top0[T] \in children

\* C2: after a completed non-dry run every child of tier T ranks above
\* every ticket of tier T that is not a child of the parent.
C2_ChildrenAboveOthersOfTier ==
    Completed =>
        \A c \in children : \A x \in Range(order) \ children :
            prio[c] = prio[x] => Above(order, c, x)

\* C2 witness: a child that ranked below a same-tier ticket of another
\* parent ranks above it after the run, with children of two tiers.
C2_Witness ==
    /\ Completed
    /\ \E c \in children : \E x \in Range(order) \ children :
         /\ prio[c] = prio[x]
         /\ Above(order0, x, c)
         /\ Above(order, c, x)
    /\ \E c, d \in children : prio[c] # prio[d]

\* C3 as stated: a second run after a real first run issues no rank call.
C3_SecondRunIssuesNoMove ==
    (run = "second" /\ pc = "done" /\ ~first.dry) => moves = <<>>

\* C4 as stated: the ordering after a second real run is the ordering the
\* first real run left.
C4_SecondRunKeepsOrder ==
    (run = "second" /\ pc = "done" /\ ~first.dry) => order = first.order

\* The rank calls for tier T are (c1 above A), (c2 above c1), ...
StackMoves(T) ==
    LET cs == TierChildren(T)
    IN  TierMoves(T) =
            [i \in 1 .. Len(cs) |->
                [issue |-> cs[i],
                 next_issue |-> IF i = 1 THEN top0[T] ELSE cs[i - 1]]]

\* The children of tier T end as cn above ... above c1.
StackOrder(T) ==
    LET cs == TierChildren(T)
    IN  \A i, j \in 1 .. Len(cs) : i < j => Above(order, cs[j], cs[i])

\* The children of tier T all end above the tier's initial anchor.
StackAboveAnchor(T) ==
    LET cs == TierChildren(T)
    IN  \A i \in 1 .. Len(cs) : Above(order, cs[i], top0[T])

\* C5 as stated: per tier the moves are (c1 above A), (c2 above c1), ...
\* and the final order is cn above ... above c1 above A.
C5_StackingAboveAnchor ==
    Completed =>
        \A T \in Tiers : StackMoves(T) /\ StackOrder(T) /\ StackAboveAnchor(T)

\* C5 amended: per tier the moves are (c1 above A), (c2 above c1), ...,
\* the final order is cn above ... above c1, and c1 is above A when A is
\* not itself a child of the parent.
C5_StackingAboveForeignAnchor ==
    Completed =>
        \A T \in Tiers :
            /\ StackMoves(T)
            /\ StackOrder(T)
            /\ top0[T] \notin children => StackAboveAnchor(T)

\* C5 witness, the worked example: X = 1 (Blocker), Y = 2, F3 = 3 (Blocker),
\* F2 = 4 (Major), F1 = 5 (Blocker); F1 above X, F2 above Y, F3 above F1.
C5_Witness ==
    /\ Completed
    /\ order0 = <<1, 2, 3, 4, 5>>
    /\ children = {3, 4, 5}
    /\ log = <<[key |-> 5, priority |-> "Blocker", anchor |-> 1],
               [key |-> 4, priority |-> "Major", anchor |-> 2],
               [key |-> 3, priority |-> "Blocker", anchor |-> 5]>>
    /\ Above(order, 3, 5)
    /\ Above(order, 5, 1)

\* C6: a completed real run started from the tracker state a dry run
\* started from (the dry run left it untouched) prints the lines the dry
\* run printed.
C6_DryRunLogEqualsRealLog ==
    (run = "second" /\ pc = "done" /\ first.dry) => log = first.log

\* C6 witness: a dry run and then a real run of three children, the real
\* one reordering the tracker and stacking a child on a child.
C6_Witness ==
    /\ run = "second"
    /\ pc = "done"
    /\ first.dry
    /\ Len(first.log) = 3
    /\ order # order0
    /\ \E i \in 1 .. Len(log) : log[i].anchor \in children

\* The map after idx children: per tier the last child taken, else the
\* anchor the query returned.
MapAsProcessed ==
    \A T \in Tiers :
        LET done == SelectSeq(SubSeq(issues, 1, idx), LAMBDA c : prio[c] = T)
        IN  top_issues[T] = IF done = <<>> THEN top0[T] ELSE done[Len(done)]

\* C7: in a dry run no rank call is issued and the ordering stays what it
\* was at the start, and in every run the map holds, per tier, the last
\* child processed.
C7_DryRunFrame ==
    /\ DRY_RUN => (moves = <<>> /\ order = order0)
    /\ pc \in {"loop", "done"} => (DOMAIN top_issues = Tiers /\ MapAsProcessed)

\* C7 witness: a dry run over two children or more is done, the map
\* changed, the tracker did not.
C7_Witness ==
    /\ DRY_RUN
    /\ pc = "done"
    /\ Len(issues) >= 2
    /\ top_issues # top0
    /\ Len(log) = Len(issues)

\* C8: a query without a result is the last query the process issues; the
\* process then has status 1, has issued no rank call and has left the
\* ordering alone.
C8_MissingResultsFatal ==
    /\ \A i \in 1 .. Len(queries) :
         queries[i].hits = 0 => (i = Len(queries) /\ pc = "exited")
    /\ pc = "exited" =>
         /\ exit_code = 1
         /\ queries # <<>> /\ queries[Len(queries)].hits = 0
         /\ moves = <<>>
         /\ log = <<>>
         /\ order = order0

\* C8 witness: the children were found and a tier's anchor query was not
\* answered.
C8_Witness ==
    /\ pc = "exited"
    /\ Len(queries) >= 2
    /\ queries[1].hits > 0
    /\ queries[Len(queries)].kind = "top"

\* C9 as stated: a JIRAError on a call of the run is retried, so the run
\* is not aborted before five attempts failed.
C9_TransientErrorRetried ==
    pc = "crashed" => raised >= 5

\* C10: a retry loop makes at most 5 attempts, makes none after a
\* successful one, and a success after transient errors only gives the
\* caller the successful result.
C10_RetryBoundary ==
    /\ Len(rattempts) <= 5
    /\ \A i \in 1 .. Len(rattempts) - 1 : rattempts[i] # "ok"
    /\ (rattempts # <<>> /\ rattempts[Len(rattempts)] = "ok") =>
         /\ rstate = "returned"
         /\ rresult = IF rcall.fn = "get_parent" THEN rcall.parent_key ELSE "applied"

\* C10 witness: four transient errors, then the fifth attempt succeeds.
C10_Witness ==
    /\ rstate = "returned"
    /\ rattempts = <<"transient", "transient", "transient", "transient", "ok">>
    /\ rresult = "applied"

\* All the attempts of the call raised JIRAError and the loop is exhausted.
Exhausted ==
    /\ Len(rattempts) = 5
    /\ \A i \in 1 .. Len(rattempts) : rattempts[i] = "transient"

\* C11 as stated: when all 5 attempts of a retried call raise JIRAError,
\* the failure is surfaced to the caller.
C11_ExhaustionSurfacesFailure ==
    Exhausted => rstate = "raised"

\* C12: an attempt that fails with something other than JIRAError is the
\* last attempt of the call, and the failure reaches the caller.
C12_OtherFailurePropagates ==
    \A i \in 1 .. Len(rattempts) :
        rattempts[i] = "other" =>
            /\ i = Len(rattempts)
            /\ rstate = "raised"
            /\ rresult = "error"

\* C12 witness: get_parent met two JIRAErrors and then another failure,
\* which ended the call at the third attempt.
C12_Witness ==
    /\ rcall.fn = "get_parent"
    /\ rattempts = <<"transient", "transient", "other">>
    /\ rstate = "raised"

\* C13: after a completed non-dry run, of two children of the same tier
\* the one that ranked higher before the run still ranks higher.
C13_SameTierSiblingsKeepOrder ==
    Completed =>
        \A c, d \in children :
            (prio[c] = prio[d] /\ Above(order0, c, d)) => Above(order, c, d)

\* C13 witness: two children of one tier, apart before the run with a
\* ticket of another parent between them, both moved and in the same order.
C13_Witness ==
    /\ Completed
    /\ \E c, d \in children : \E x \in Range(order) \ children :
         /\ prio[c] = prio[d]
         /\ Above(order0, c, x) /\ Above(order0, x, d)
         /\ Above(order, c, d) /\ Above(order, d, x)
         /\ Pos(order, c) # Pos(order0, c)

\* C14: a step of the loop that takes child C of tier T sets the map entry
\* of T to C and leaves every other entry as it was; the anchor of C's log
\* line and of C's rank call is the entry of T before the step; and the
\* keys of the map are the six tiers before and after every step of the loop.
C14_CheckRankUpdatesOneEntry ==
    [][pc = "loop" =>
          /\ DOMAIN top_issues = Tiers
          /\ DOMAIN top_issues' = Tiers
          /\ idx' = idx + 1 =>
               LET C == issues[idx + 1]
                   T == prio[C]
               IN  /\ top_issues'[T] = C
                   /\ \A U \in Tiers \ {T} : top_issues'[U] = top_issues[U]
                   /\ log' = Append(log, [key |-> C, priority |-> T,
                                          anchor |-> top_issues[T]])
                   /\ ~DRY_RUN =>
                        moves' = Append(moves, [issue |-> C,
                                                next_issue |-> top_issues[T]])]_vars

\* C14 witness: two children taken, the second anchored on the first, the
\* entry of their tier changed and the entry of another tier still the
\* anchor the query returned.
C14_Witness ==
    /\ pc = "loop"
    /\ idx = 2
    /\ log[2].anchor = log[1].key
    /\ top_issues[log[2].priority] = log[2].key
    /\ \E U \in Tiers : U # log[2].priority /\ top_issues[U] = top0[U]
    /\ top_issues # top0

\* C15 as stated: in a non-dry run, once the map is built and after every
\* child, the entry of every tier T is the ticket the tracker now ranks
\* highest among the tickets of priority at or below T.
C15_MapIsCurrentTop ==
    (~DRY_RUN /\ pc \in {"loop", "done"}) =>
        \A T \in Tiers : <<top_issues[T]>> = SearchTop(order, prio, T)

\* C16 as stated: after a completed non-dry run no child of a lower tier
\* ranks above a child of a higher tier.
C16_ChildrenOrderedByTier ==
    Completed =>
        \A c, d \in children :
            TierIndex(prio[c]) < TierIndex(prio[d]) => ~Above(order, c, d)

\* C17 as stated: no rank call names one ticket as the issue to move and as
\* the ticket to place it before.
C17_NoSelfRank ==
    \A i \in 1 .. Len(moves) : moves[i].issue # moves[i].next_issue

\* The queries of a run that got to the loop: the children, then the six
\* tiers in the order of PRIORITY.
AllQueries ==
    /\ Len(queries) = Len(PRIORITY) + 1
    /\ queries[1].kind = "children"
    /\ \A i \in 1 .. Len(PRIORITY) :
         queries[i + 1].kind = "top" /\ queries[i + 1].priority = PRIORITY[i]

\* The rank calls issued so far: one per child taken, in the order of
\* get_issues.
OneMovePerChild ==
    /\ Len(moves) = idx
    /\ \A i \in 1 .. Len(moves) : moves[i].issue = issues[i]

\* C18: a run terminates; while and after a non-dry run ranks, all seven
\* queries have been issued and no other is, and the rank calls are one per
\* child taken, in the order the children were returned: n when it is done.
C18_TerminatesWithOneMovePerChild ==
    /\ <>(pc \in {"done", "exited"})
    /\ [](pc \in {"loop", "done"} =>
            /\ AllQueries
            /\ ~DRY_RUN => OneMovePerChild
            /\ pc = "done" => idx = Len(issues))
    /\ [](moves # <<>> => pc \in {"loop", "done"})

\* C18 witness: a non-dry run of three children is done after seven
\* queries and three rank calls.
C18_Witness ==
    /\ Completed
    /\ exit_code = 0
    /\ Len(issues) = 3
    /\ Len(moves) = 3
    /\ Len(queries) = 7

====
